---------------------------- MODULE Spec2Model ----------------------------
(***************************************************************************)
(* Model of db.py: the Data facade over the Berkeley DB and the sqlite3    *)
(* backends (classes Data, Table, Index, Berkeley, BSDTable, SQLite,       *)
(* SQLTable).  One behaviour is one facade object used by a single caller, *)
(* from its construction to the end of its with-scope.                     *)
(*                                                                         *)
(* Python values are modelled as follows: a str is a TLA+ string, a bytes  *)
(* object is the record [b |-> its characters], None / False are the       *)
(* distinguished values of each field stated where the field is declared.  *)
(***************************************************************************)
EXTENDS Naturals, Sequences, FiniteSets, TLC

\* ------------------------------------------------------------------ bounds
MaxRows == 2        \* entries the backend may hold in total
MaxIndexes == 2     \* Index objects add_index may create on one facade

\* ------------------------------------------------------------------ inputs
Backends == {"Berkeley", "SQLite"}
TableNames == {"games", "comps"}
Keys == {"a", "b'a'"}
Values == {"", "x"}
\* the keys and values written to and read from each table
KeysOf(name) == IF name = "games" THEN Keys ELSE {"a"}
ValuesOf(name) == IF name = "games" THEN Values ELSE {"x"}
\* the table add_index and selectors are used on
IndexedTables == {"games"}
IndexNames == {"date", "games"}
SelValues == {"s"}
\* SpecIndex: the primary keys, the secondary keys the callback derives
\* ("d" is a prefix of "d1"), the selectors looked up, the value of each record
PKeys == {"a", "b", "c"}
SecKeys == {"d", "d1", "e"}
Selectors == {"d", "d1", "e", "c"}
ValueOf(pk) == IF pk = "b" THEN "" ELSE "x"
\* selector names passed to Data.table(name, **key)
SelNames == {"date", "name", "cursor", "indexes", "put", "__class__"}

\* -------------------------------------------------------------- str / bytes
\* the characters of the modelled strings, in byte order
Alphabet == <<"\"", "'", "1", "\\", "a", "b", "c", "d", "e", "s", "x", "y">>

Ord(c) == CHOOSE i \in 1..Len(Alphabet) : Alphabet[i] = c

RECURSIVE HasChar(_, _)
HasChar(s, c) ==
    IF Len(s) = 0 THEN FALSE
    ELSE IF SubSeq(s, 1, 1) = c THEN TRUE
    ELSE HasChar(SubSeq(s, 2, Len(s)), c)

RECURSIVE EscapeQuote(_)
EscapeQuote(s) ==
    IF Len(s) = 0 THEN ""
    ELSE (IF SubSeq(s, 1, 1) = "'" THEN "\\'" ELSE SubSeq(s, 1, 1))
         \o EscapeQuote(SubSeq(s, 2, Len(s)))

\* str.encode(): the bytes object holding the (ASCII) characters of s
Encode(s) == [b |-> s]

\* bytes.decode()
Decode(x) == x.b

\* str(x) of a bytes object x: its repr, b'...' (b"..." when the bytes hold a
\* single quote and no double quote)
StrOfBytes(x) ==
    IF HasChar(x.b, "'") /\ ~HasChar(x.b, "\"")
    THEN "b\"" \o x.b \o "\""
    ELSE "b'" \o EscapeQuote(x.b) \o "'"

\* byte-wise lexicographic order, the B-tree's default comparison
RECURSIVE StrLess(_, _)
StrLess(s, t) ==
    IF Len(t) = 0 THEN FALSE
    ELSE IF Len(s) = 0 THEN TRUE
    ELSE IF SubSeq(s, 1, 1) = SubSeq(t, 1, 1)
         THEN StrLess(SubSeq(s, 2, Len(s)), SubSeq(t, 2, Len(t)))
         ELSE Ord(SubSeq(s, 1, 1)) < Ord(SubSeq(t, 1, 1))

BytesLess(x, y) == StrLess(x.b, y.b)


\* ------------------------------------------------------------------- state
VARIABLES
    backend,    \* the facade's class: "Berkeley" or "SQLite"
    phase,      \* "open": inside the with-scope; "exited": __exit__ has run
    handleOpen, \* Berkeley: self.env is open; SQLite: self.db (connection) is open
    tables,     \* Data.tables: name -> the registered Table object
    files,      \* names whose database file / relation exists in the backend
    rows,       \* name -> the stored entries (Berkeley: key order; SQLite: rowid order)
    sqlcur,     \* SQLite.cur, the one sqlite3 cursor: its unfetched result rows
    dirty,      \* SQLite: statements executed since the last commit
    facadeIdx,  \* Berkeley: index names set as attributes of the facade by add_index
    idxHandles, \* Berkeley: secondary DB handles opened by add_index
    classAttr,  \* cursor_value set on the Table subclass itself ("" : not set)
    index,      \* an Index object: [cursor, pos, cursor_value, open]
    idxdb,      \* the secondary database of that Index: <<skey, pkey, value>> sorted
    scanlog,    \* the current run of consecutive advances of one iterator
    twin,       \* SpecPair: a SQLite facade given the calls the Berkeley one is given
    prev,       \* the call before the last one, [op, table, key, val, had], when it
                \* was a put or delete of the table and key of the last one (else NoCall)
    last        \* the last call, its inputs and its outcome

vars == <<backend, phase, handleOpen, tables, files, rows, sqlcur, dirty,
          facadeIdx, idxHandles, classAttr, index, idxdb, scanlog,
          twin, prev, last>>

\* Table.__init__: cursor = False, indexes = {}.  `reg` says whether the name is
\* in Data.tables; `cursor` is Table.cursor (FALSE: the attribute is False); `pos`
\* is the key the Berkeley cursor stands on; `ncur` counts the backend cursors the
\* Table object has opened (self.db.cursor() / self.cur.execute) and not yet
\* closed or dropped.
NoTable == [reg |-> FALSE, cursor |-> FALSE, pos |-> "", ncur |-> 0]

NewTable == [reg |-> TRUE, cursor |-> FALSE, pos |-> "", ncur |-> 0]

NoCall == [op |-> "", table |-> "", key |-> "", val |-> "", had |-> FALSE]

\* ret: what the call returned ("None", "str", "tuple", "int", "Table", "Index",
\* "class", or "" when it raised); rkey/rval/n: the returned strings / number;
\* err: the exception raised ("" : none); had: the key was stored before the
\* call; same: the call left the stored entries as they were; reg: the table
\* name was in Data.tables before the call; made: the Table objects (and backend
\* handles) the call created; att: the Index objects the call attached (and
\* index database handles it opened).  For add_index, had says that the index
\* name was that of a registered table or of an attached index before the call.
\* kept: every Table that held a cursor before the call, other than the one the
\* call advanced, has its iteration where it was (see ScanState).
NoLast == [op |-> "", table |-> "", key |-> "", val |-> "", ret |-> "", rkey |-> "",
           rval |-> "", n |-> 0, err |-> "", had |-> FALSE, same |-> TRUE,
           reg |-> FALSE, made |-> 0, att |-> 0, kept |-> TRUE]

NoScan == [table |-> "", fresh |-> FALSE, afterStop |-> FALSE, done |-> FALSE,
           sel |-> "", snap |-> <<>>, out |-> <<>>, iter |-> FALSE]

NoIndex == [open |-> FALSE, cursor |-> FALSE, pos |-> 0, cursor_value |-> ""]

\* the part of the state the table operations read and write, and `made` / `att`,
\* the Table objects created / Index objects attached so far by the call in
\* progress
Cur == [tables |-> tables, files |-> files, rows |-> rows, sqlcur |-> sqlcur,
        dirty |-> dirty, made |-> 0, att |-> 0]

\* a facade after construction: no table registered, nothing stored
Fresh == [tables |-> [t \in TableNames |-> NoTable], files |-> {},
          rows |-> [t \in TableNames |-> <<>>], sqlcur |-> <<>>, dirty |-> FALSE,
          made |-> 0, att |-> 0]

\* the second facade: its state and what its last call returned / raised
NoTwin == [on |-> FALSE, st |-> Fresh, ret |-> "", rval |-> "", err |-> ""]

Store(st) ==
    /\ tables' = st.tables
    /\ files' = st.files
    /\ rows' = st.rows
    /\ sqlcur' = st.sqlcur
    /\ dirty' = st.dirty

CallOf(l) == [op |-> l.op, table |-> l.table, key |-> l.key, val |-> l.val, had |-> l.had]

TotalRows(st) == Len(st.rows["games"]) + Len(st.rows["comps"])

\* ------------------------------------------------------------ Berkeley DB
\* DB.get(key): the stored value, or None (found = FALSE)
BsdGet(rs, kb) ==
    IF \E i \in 1..Len(rs) : rs[i][1] = kb
    THEN [found |-> TRUE, v |-> rs[CHOOSE i \in 1..Len(rs) : rs[i][1] = kb][2]]
    ELSE [found |-> FALSE, v |-> Encode("")]

\* DB.put(key, value) on a B-tree without duplicates: overwrite or insert in key order
BsdPut(rs, kb, vb) ==
    LET below == SelectSeq(rs, LAMBDA r : BytesLess(r[1], kb))
        above == SelectSeq(rs, LAMBDA r : BytesLess(kb, r[1]))
    IN  below \o <<(<<kb, vb>>)>> \o above

\* DB.delete(key): the entry removed (DBNotFoundError when there is none)
BsdDelete(rs, kb) == SelectSeq(rs, LAMBDA r : r[1] # kb)

\* ----------------------------------------------------------------- sqlite3
\* SELECT value FROM t WHERE key=?
SqlSelectValue(rs, k) ==
    LET hit == SelectSeq(rs, LAMBDA r : r[1] = k)
    IN  [i \in 1..Len(hit) |-> <<hit[i][2]>>]

\* UPDATE t SET key=?, value=? WHERE key=? with (key, value, key)
SqlUpdate(rs, k, v) == [i \in 1..Len(rs) |-> IF rs[i][1] = k THEN <<k, v>> ELSE rs[i]]

\* DELETE FROM t WHERE key=?
SqlDelete(rs, k) == SelectSeq(rs, LAMBDA r : r[1] # k)

\* ------------------------------------------------------- results of a call
\* a call's outcome: the state it leaves, what it returned, what it raised
Returned(st, ret, rkey, rval) ==
    [st |-> st, ret |-> ret, rkey |-> rkey, rval |-> rval, n |-> 0, err |-> ""]

Raised(st, err) ==
    [st |-> st, ret |-> "", rkey |-> "", rval |-> "", n |-> 0, err |-> err]

\* bool(s) of a str
Truthy(s) == s # ""

\* the key under which the backend stores the str k
StoredKey(k) == IF backend = "Berkeley" THEN Encode(k) ELSE k

HasKey(st, name, k) == \E i \in 1..Len(st.rows[name]) : st.rows[name][i][1] = StoredKey(k)

\* ------------------------------------------------------------- opening
\* Data.open(name, db_obj): the registry entry is set, whatever it was
DataOpen(st, name, obj) == [st EXCEPT !.tables[name] = obj]

\* Berkeley.open(name): a new DB handle (DB_CREATE) and a new BSDTable
BerkeleyOpen(st, name) ==
    LET s1 == [st EXCEPT !.files = @ \cup {name}, !.made = @ + 1]
    IN  DataOpen(s1, name, NewTable)

\* SQLite.open(name): look the relation up in sqlite_master on the shared cursor,
\* CREATE TABLE and commit when it is missing, then a new SQLTable
SQLiteOpen(st, name) ==
    LET s1 == [st EXCEPT !.sqlcur = <<>>]
        s2 == IF name \in s1.files THEN s1
              ELSE [s1 EXCEPT !.files = @ \cup {name}, !.dirty = FALSE]
        s3 == [s2 EXCEPT !.made = @ + 1]
    IN  DataOpen(s3, name, NewTable)

\* self.open(name) on a facade of class b
OpenTableOn(b, st, name) ==
    IF b = "Berkeley" THEN BerkeleyOpen(st, name) ELSE SQLiteOpen(st, name)

OpenTable(st, name) == OpenTableOn(backend, st, name)

\* Data.assert_exist(table)
AssertExistOn(b, st, name) ==
    IF ~st.tables[name].reg THEN OpenTableOn(b, st, name) ELSE st

AssertExist(st, name) == AssertExistOn(backend, st, name)

\* ------------------------------------------------------------- BSDTable
BSDTablePut(st, name, key, data) ==
    LET k == Encode(key)
        v == Encode(data)
    IN  Returned([st EXCEPT !.rows[name] = BsdPut(@, k, v)], "None", "", "")

\* data = self.db.get(key.encode()); return data.decode()
BSDTableGet(st, name, key) ==
    LET data == BsdGet(st.rows[name], Encode(key))
    IN  IF data.found THEN Returned(st, "str", "", Decode(data.v))
        ELSE Raised(st, "AttributeError")

\* Table.delete(key): return self.db.delete(key)
TableDelete(st, name, kb) ==
    IF BsdGet(st.rows[name], kb).found
    THEN Returned([st EXCEPT !.rows[name] = BsdDelete(@, kb)], "None", "", "")
    ELSE Raised(st, "DBNotFoundError")

\* ------------------------------------------------------------- SQLTable
\* a = self.cur.execute(SELECT value ...).fetchone(); if a: return a[0]
SQLTableGet(st, name, key) ==
    LET res == SqlSelectValue(st.rows[name], key)
    IN  IF Len(res) = 0 THEN Returned([st EXCEPT !.sqlcur = <<>>], "None", "", "")
        ELSE Returned([st EXCEPT !.sqlcur = Tail(res)], "str", "", Head(res)[1])

\* SQLTable.sql_statement(mode, key, value) without indexes, then commit
SqlStatement(st, name, mode, key, value) ==
    LET rs == st.rows[name]
        new == IF mode = "INSERT" THEN Append(rs, <<key, value>>)
               ELSE SqlUpdate(rs, key, value)
    IN  [st EXCEPT !.rows[name] = new, !.sqlcur = <<>>, !.dirty = FALSE]

\* if not self.get(key): INSERT else: UPDATE
SQLTablePut(st, name, key, data) ==
    LET g == SQLTableGet(st, name, key)
        got == g.ret = "str" /\ Truthy(g.rval)
    IN  IF ~got THEN Returned(SqlStatement(g.st, name, "INSERT", key, data), "None", "", "")
        ELSE Returned(SqlStatement(g.st, name, "UPDATE", key, data), "None", "", "")

\* key = str(key); DELETE FROM t WHERE key=?  (no commit)
SQLTableDelete(st, name, kb) ==
    LET key == StrOfBytes(kb)
    IN  Returned([st EXCEPT !.rows[name] = SqlDelete(@, key), !.sqlcur = <<>>,
                            !.dirty = TRUE], "None", "", "")

\* ------------------------------------------------------------- Data facade
\* Data.put / Data.get / Data.delete on a facade of class b
DataPutOn(b, st, name, key, data) ==
    LET s1 == AssertExistOn(b, st, name)
    IN  IF b = "Berkeley" THEN BSDTablePut(s1, name, key, data)
        ELSE SQLTablePut(s1, name, key, data)

DataGetOn(b, st, name, key) ==
    LET s1 == AssertExistOn(b, st, name)
    IN  IF b = "Berkeley" THEN BSDTableGet(s1, name, key)
        ELSE SQLTableGet(s1, name, key)

\* key = str(key).encode(); self.tables[name].delete(key)
DataDeleteOn(b, st, name, key) ==
    LET s1 == AssertExistOn(b, st, name)
        kb == Encode(key)
    IN  IF b = "Berkeley" THEN TableDelete(s1, name, kb)
        ELSE SQLTableDelete(s1, name, kb)

DataPut(st, name, key, data) == DataPutOn(backend, st, name, key, data)

DataGet(st, name, key) == DataGetOn(backend, st, name, key)

DataDelete(st, name, key) == DataDeleteOn(backend, st, name, key)

\* add_index: the name idx is that of a table in Data.tables (for the SQLite
\* facade the call is data.table(name).add_index(idx), so name is in it) or of an
\* Index that an earlier add_index attached
Collides(name, idx) ==
    \/ idx \in TableNames /\ tables[idx].reg
    \/ backend = "SQLite" /\ idx = name
    \/ idx \in facadeIdx

\* where the iteration of Table t stands: its cursor attribute, the entry a
\* Berkeley cursor is on, and the rows a SQLite cursor has yet to return
ScanState(st, t) ==
    [cursor |-> st.tables[t].cursor, pos |-> st.tables[t].pos,
     pending |-> IF backend = "SQLite" THEN st.sqlcur ELSE <<>>]

\* the record of a finished call
Outcome(op, name, key, val, r) ==
    [op |-> op, table |-> name, key |-> key, val |-> val, ret |-> r.ret,
     rkey |-> r.rkey, rval |-> r.rval, n |-> r.n, err |-> r.err,
     had |-> IF op = "add_index" THEN Collides(name, key)
             ELSE IF name \in TableNames /\ key \in Keys THEN HasKey(Cur, name, key)
             ELSE FALSE,
     same |-> r.st.rows = rows,
     reg |-> IF name \in TableNames THEN tables[name].reg ELSE FALSE,
     made |-> r.st.made,
     att |-> r.st.att,
     kept |-> \A t \in TableNames :
                (tables[t].cursor /\ ~(op = "next" /\ t = name))
                    => ScanState(r.st, t) = ScanState(Cur, t)]

\* what every call of the with-body does besides its own effect
Finish(op, name, key, val, r) ==
    /\ Store(r.st)
    /\ prev' = IF last.op \in {"put", "delete"} /\ last.table = name /\ last.key = key
               THEN CallOf(last) ELSE NoCall
    /\ last' = Outcome(op, name, key, val, r)

Untouched == UNCHANGED <<backend, phase, handleOpen, facadeIdx, idxHandles,
                         classAttr, index, idxdb, twin>>

\* ------------------------------------------------------------- iteration
\* the stored entries as the (key, value) pairs of str an iteration returns
Pairs(st, name) ==
    [i \in 1..Len(st.rows[name]) |->
        IF backend = "Berkeley"
        THEN <<Decode(st.rows[name][i][1]), Decode(st.rows[name][i][2])>>
        ELSE st.rows[name][i]]

\* a cursor that forgets its position: every advance starts over
BsdAfterForgetful(rs, positioned, pos) == rs

\* DBCursor.next(): the entries after the cursor's position (a cursor that was
\* just created stands before the first entry)
BsdAfter(rs, positioned, pos) ==
    IF positioned THEN SelectSeq(rs, LAMBDA r : BytesLess(Encode(pos), r[1])) ELSE rs

\* a __next__ without the test of self.cursor: every advance opens a cursor
TableNextReopening(st, name) ==
    LET t == st.tables[name]
        s1 == [st EXCEPT !.tables[name].ncur = @ + 1]
        rest == BsdAfter(st.rows[name], FALSE, t.pos)
    IN  IF Len(rest) = 0
        THEN Raised([s1 EXCEPT !.tables[name].cursor = FALSE, !.tables[name].pos = "",
                               !.tables[name].ncur = @ - 1],
                    "StopIteration")
        ELSE Returned([s1 EXCEPT !.tables[name].cursor = TRUE,
                                 !.tables[name].pos = Decode(Head(rest)[1])],
                      "tuple", Decode(Head(rest)[1]), Decode(Head(rest)[2]))

\* Table.__next__ on a BSDTable
TableNext(st, name) ==
    LET t == st.tables[name]
        s1 == IF ~t.cursor THEN [st EXCEPT !.tables[name].ncur = @ + 1] ELSE st
        rest == BsdAfter(st.rows[name], t.cursor, t.pos)
    IN  IF Len(rest) = 0
        THEN Raised([s1 EXCEPT !.tables[name].cursor = FALSE, !.tables[name].pos = "",
                               !.tables[name].ncur = @ - 1],
                    "StopIteration")
        ELSE Returned([s1 EXCEPT !.tables[name].cursor = TRUE,
                                 !.tables[name].pos = Decode(Head(rest)[1])],
                      "tuple", Decode(Head(rest)[1]), Decode(Head(rest)[2]))

\* SQLTable.__next__: the SELECT runs on the shared cursor self.cur
SQLTableNext(st, name) ==
    LET t == st.tables[name]
        s1 == IF ~t.cursor
              THEN [st EXCEPT !.sqlcur = st.rows[name], !.tables[name].cursor = TRUE,
                              !.tables[name].ncur = @ + 1]
              ELSE st
    IN  IF Len(s1.sqlcur) = 0
        THEN Raised([s1 EXCEPT !.tables[name].cursor = FALSE,
                               !.tables[name].ncur = @ - 1], "StopIteration")
        ELSE LET item == Head(s1.sqlcur)
                 s2 == [s1 EXCEPT !.sqlcur = Tail(@)]
             IN  IF Len(item) # 2 THEN Raised(s2, "ValueError")
                 ELSE Returned(s2, "tuple", item[1], item[2])

IterNext(st, name) ==
    IF backend = "Berkeley" THEN TableNext(st, name) ELSE SQLTableNext(st, name)

\* the run of consecutive advances of one Table: `snap` the entries stored when
\* the run began, `fresh` the Table had no cursor then, `afterStop` the call
\* before the run ended an iteration of the same Table, `out` the pairs returned
\* so far, `done` the run ended with StopIteration, `iter` the run began with
\* a call of __iter__ (a for statement)
ScanBegin(name, byIter) ==
    [table |-> name, fresh |-> ~tables[name].cursor,
     afterStop |-> (scanlog.table = name /\ scanlog.done),
     done |-> FALSE, sel |-> "", snap |-> Pairs(Cur, name),
     out |-> <<>>, iter |-> byIter]

ScanStep(name, r) ==
    LET cont == scanlog.table = name /\ ~scanlog.done
        base == IF cont THEN scanlog ELSE ScanBegin(name, FALSE)
    IN  IF r.err = "StopIteration" THEN [base EXCEPT !.done = TRUE]
        ELSE IF r.err # "" THEN NoScan
        ELSE [base EXCEPT !.out = Append(@, <<r.rkey, r.rval>>)]

\* SQLTable.__len__; a BSDTable defines no __len__
TableLen(st, name) ==
    IF backend = "Berkeley" THEN Raised(st, "TypeError")
    ELSE [Returned([st EXCEPT !.sqlcur = <<>>], "int", "", "")
            EXCEPT !.n = Len(st.rows[name])]

\* ------------------------------------------------------------- Data.table
\* getattr(table, k): the kind of object the attribute k of a Table object is
\* ("" : no such attribute)
AttrKind(t, k) ==
    CASE k = "name" -> "str"
      [] k = "cursor" -> IF t.cursor THEN "cursor" ELSE "bool"
      [] k = "indexes" -> "dict"
      [] k = "put" -> "method"
      [] k = "__class__" -> "class"
      [] OTHER -> ""

\* setattr(obj, 'cursor_value', v) succeeds on objects with an instance dict
Settable(kind) == kind \in {"class", "Index"}

\* Data.table(name, **key); k = "" stands for no selector
DataTable(st, name, k, v) ==
    LET s1 == AssertExist(st, name)
        kind == AttrKind(s1.tables[name], k)
    IN  IF k = "" THEN Returned(s1, "Table", "", "")
        ELSE IF kind = "" THEN Raised(s1, "AttributeError")
        ELSE IF ~Settable(kind) THEN Raised(s1, "AttributeError")
        ELSE Returned(s1, kind, "", v)

\* ------------------------------------------------------------------ actions
Open(name) ==
    /\ phase = "open"
    /\ Finish("open", name, "", "", Returned(OpenTable(Cur, name), "None", "", ""))
    /\ scanlog' = NoScan
    /\ Untouched

Put(name, key, data) ==
    /\ phase = "open"
    /\ TotalRows(DataPut(Cur, name, key, data).st) <= MaxRows
    /\ Finish("put", name, key, data, DataPut(Cur, name, key, data))
    /\ scanlog' = NoScan
    /\ Untouched

Get(name, key) ==
    /\ phase = "open"
    /\ Finish("get", name, key, "", DataGet(Cur, name, key))
    /\ scanlog' = NoScan
    /\ Untouched

Delete(name, key) ==
    /\ phase = "open"
    /\ Finish("delete", name, key, "", DataDelete(Cur, name, key))
    /\ scanlog' = NoScan
    /\ Untouched

Advance(name) ==
    /\ phase = "open"
    /\ tables[name].reg
    /\ Finish("next", name, "", "", IterNext(Cur, name))
    /\ scanlog' = ScanStep(name, IterNext(Cur, name))
    /\ Untouched

\* iter(table), the beginning of `for key, value in table`: Table.__iter__
\* returns self
Iter(name) ==
    /\ phase = "open"
    /\ tables[name].reg
    /\ Finish("iter", name, "", "", Returned(Cur, "Table", "", ""))
    /\ scanlog' = ScanBegin(name, TRUE)
    /\ Untouched

Count(name) ==
    /\ phase = "open"
    /\ Finish("len", name, "", "", TableLen(AssertExist(Cur, name), name))
    /\ scanlog' = NoScan
    /\ Untouched

\* data.table(name) and data.table(name, k=v)
TableOf(name, k, v) ==
    /\ phase = "open"
    /\ Finish("table", name, k, v, DataTable(Cur, name, k, v))
    /\ classAttr' = IF DataTable(Cur, name, k, v).ret = "class" THEN v ELSE classAttr
    /\ scanlog' = NoScan
    /\ UNCHANGED <<backend, phase, handleOpen, facadeIdx, idxHandles, index, idxdb,
                   twin>>

\* Berkeley.add_index(idx, callback, name), called on the facade: raising a str is
\* a TypeError; otherwise the Index is set as attribute idx of the facade and its
\* DB opened, then self.db.associate fails, a Berkeley object having no attribute db
BerkeleyAddIndex(st, name, idx) ==
    IF idx \in TableNames /\ st.tables[idx].reg THEN Raised(st, "TypeError")
    ELSE Raised([st EXCEPT !.att = @ + 1], "AttributeError")

\* the index names add_index leaves set on the facade
BerkeleyAttached(st, idx) == ~(idx \in TableNames /\ st.tables[idx].reg)

\* SQLTable.add_index(idx), called on data.table(name): self.indexes is the empty
\* dict; ALTER TABLE ... ADD COLUMN ? is rejected by sqlite3 (a parameter where a
\* column definition is expected)
SQLTableAddIndex(st, name, idx) ==
    LET s1 == AssertExist(st, name)
    IN  Raised([s1 EXCEPT !.sqlcur = <<>>], "OperationalError")

AddIndex(name, idx) ==
    /\ phase = "open"
    /\ backend = "Berkeley" /\ BerkeleyAttached(Cur, idx) => idxHandles < MaxIndexes
    /\ IF backend = "Berkeley"
       THEN /\ Finish("add_index", name, idx, "", BerkeleyAddIndex(Cur, name, idx))
            /\ facadeIdx' = IF BerkeleyAttached(Cur, idx) THEN facadeIdx \cup {idx}
                            ELSE facadeIdx
            /\ idxHandles' = IF BerkeleyAttached(Cur, idx) THEN idxHandles + 1
                             ELSE idxHandles
       ELSE /\ Finish("add_index", name, idx, "", SQLTableAddIndex(Cur, name, idx))
            /\ UNCHANGED <<facadeIdx, idxHandles>>
    /\ scanlog' = NoScan
    /\ UNCHANGED <<backend, phase, handleOpen, classAttr, index, idxdb, twin>>

\* Berkeley.close(): the loop over self.indexes comes first, and no code sets the
\* attribute indexes of a Berkeley object (add_index sets the attribute named by
\* its argument); with it set, every cursor, table and the environment are closed
BerkeleyClose(st) ==
    IF "indexes" \notin facadeIdx THEN Raised(st, "AttributeError")
    ELSE Returned([st EXCEPT !.tables = [t \in TableNames |->
                                 [st.tables[t] EXCEPT !.cursor = FALSE, !.pos = "",
                                                      !.ncur = 0]]],
                  "None", "", "")

\* what sqlite3 does with a commit: "" it succeeds, else it raises (the database
\* is locked, the disk is full)
CommitResults == {"", "commit fails"}

\* SQLite.__exit__: self.db.commit(); self.db.close().  When commit raises,
\* close is not reached
SQLiteExit(st, commit) ==
    IF commit # "" THEN Raised(st, "OperationalError")
    ELSE Returned([st EXCEPT !.dirty = FALSE, !.sqlcur = <<>>], "None", "", "")

\* leaving the with-scope; exc = "raised" when the body ended in an exception,
\* commit the result of the SQLite commit
Exit(exc, commit) ==
    /\ phase = "open"
    /\ phase' = "exited"
    /\ backend = "Berkeley" => commit = ""
    /\ IF backend = "Berkeley"
       THEN /\ Finish("exit", "", "", exc, BerkeleyClose(Cur))
            /\ handleOpen' = IF BerkeleyClose(Cur).err = "" THEN FALSE ELSE handleOpen
            /\ idxHandles' = IF BerkeleyClose(Cur).err = "" THEN 0 ELSE idxHandles
       ELSE /\ Finish("exit", "", commit, exc, SQLiteExit(Cur, commit))
            /\ handleOpen' = IF SQLiteExit(Cur, commit).err = "" THEN FALSE
                             ELSE handleOpen
            /\ UNCHANGED idxHandles
    /\ scanlog' = NoScan
    /\ UNCHANGED <<backend, facadeIdx, classAttr, index, idxdb, twin>>

\* ------------------------------------------------------------------ Index
\* an Index object as Berkeley.add_index builds it (db opened with DB_DUPSORT,
\* cursor = False), over a secondary database the engine keeps sorted by
\* (secondary key, primary key)
EntryLess(e, f) ==
    \/ StrLess(e[1].b, f[1].b)
    \/ e[1] = f[1] /\ StrLess(e[2].b, f[2].b)

\* the secondary database holding entry <<callback(pk), pk, value>> for pk in S
RECURSIVE SortedEntries(_)
SortedEntries(es) ==
    IF es = {} THEN <<>>
    ELSE LET m == CHOOSE e \in es : \A f \in es \ {e} : EntryLess(e, f)
         IN  <<m>> \o SortedEntries(es \ {m})

SecondaryDB(derive) ==
    SortedEntries({<<Encode(derive[pk]), Encode(pk), Encode(ValueOf(pk))>> :
                     pk \in DOMAIN derive})

\* a range lookup (DB_SET_RANGE): the first entry whose secondary key is key or
\* greater
PgetSetRange(db, kb) ==
    IF \E i \in 1..Len(db) : ~BytesLess(db[i][1], kb)
    THEN CHOOSE i \in 1..Len(db) :
            ~BytesLess(db[i][1], kb) /\ \A j \in 1..(i - 1) : BytesLess(db[j][1], kb)
    ELSE 0

\* DBCursor.pget(key, DB_GET_BOTH_RANGE): the position of the first entry whose
\* secondary key is key (0: None)
PgetBothRange(db, kb) ==
    IF \E i \in 1..Len(db) : db[i][1] = kb
    THEN CHOOSE i \in 1..Len(db) : db[i][1] = kb /\ \A j \in 1..(i - 1) : db[j][1] # kb
    ELSE 0

\* DBCursor.next_dup(): the next entry when it has the secondary key of the
\* current one (0: None)
NextDup(db, pos) ==
    IF pos < Len(db) /\ db[pos + 1][1] = db[pos][1] THEN pos + 1 ELSE 0

\* Index.__next__: the position of the item, 0 when item is None
IndexItem(ix, db) ==
    IF ~ix.cursor THEN PgetBothRange(db, Encode(ix.cursor_value))
    ELSE NextDup(db, ix.pos)

\* Index.__len__: the entries cursor.next() steps over before it returns None
IndexCount(ix, db) == IF ix.cursor THEN Len(db) - ix.pos ELSE Len(db)

\* the (key, value) pairs of the entries whose secondary key is sel
Matching(db, sel) ==
    LET hit == SelectSeq(db, LAMBDA e : e[1] = Encode(sel))
    IN  [i \in 1..Len(hit) |-> <<Decode(hit[i][2]), Decode(hit[i][3])>>]

IndexIdle == UNCHANGED <<backend, phase, handleOpen, tables, files, rows, sqlcur,
                         dirty, facadeIdx, idxHandles, classAttr, idxdb, twin, prev>>

\* Data.table, line 76: setattr(index_obj, 'cursor_value', v)
Seed(v) ==
    /\ index' = [index EXCEPT !.cursor_value = v]
    /\ last' = [NoLast EXCEPT !.op = "seed", !.val = v, !.ret = "Index"]
    /\ scanlog' = NoScan
    /\ IndexIdle

IndexNext ==
    LET item == IndexItem(index, idxdb)
        cont == scanlog.table = "index" /\ ~scanlog.done
        base == IF cont THEN scanlog
                ELSE [table |-> "index", fresh |-> ~index.cursor,
                      afterStop |-> (scanlog.table = "index" /\ scanlog.done),
                      done |-> FALSE, sel |-> index.cursor_value,
                      snap |-> [i \in 1..Len(idxdb) |->
                                  <<Decode(idxdb[i][2]), Decode(idxdb[i][3])>>],
                      out |-> <<>>, iter |-> FALSE]
    IN  /\ index.open
        /\ IF item = 0
           THEN /\ index' = [index EXCEPT !.cursor = FALSE, !.pos = 0]
                /\ last' = [NoLast EXCEPT !.op = "inext", !.err = "StopIteration"]
                /\ scanlog' = [base EXCEPT !.done = TRUE]
           ELSE /\ index' = [index EXCEPT !.cursor = TRUE, !.pos = item]
                /\ last' = [NoLast EXCEPT !.op = "inext", !.ret = "tuple",
                                          !.rkey = Decode(idxdb[item][2]),
                                          !.rval = Decode(idxdb[item][3])]
                /\ scanlog' = [base EXCEPT !.out = Append(@, <<Decode(idxdb[item][2]),
                                                               Decode(idxdb[item][3])>>)]
        /\ IndexIdle

IndexLen ==
    /\ index.open
    /\ index' = [index EXCEPT !.cursor = FALSE, !.pos = 0]
    /\ last' = [NoLast EXCEPT !.op = "ilen", !.ret = "int", !.n = IndexCount(index, idxdb),
                              !.had = index.cursor]
    /\ scanlog' = NoScan
    /\ IndexIdle

Init ==
    /\ backend \in Backends
    /\ phase = "open"
    /\ handleOpen = TRUE
    /\ tables = [t \in TableNames |-> NoTable]
    /\ files = {}
    /\ rows = [t \in TableNames |-> <<>>]
    /\ sqlcur = <<>>
    /\ dirty = FALSE
    /\ facadeIdx = {}
    /\ idxHandles = 0
    /\ classAttr = ""
    /\ index = NoIndex
    /\ idxdb = <<>>
    /\ scanlog = NoScan
    /\ twin = NoTwin
    /\ prev = NoCall
    /\ last = NoLast

Next ==
    \/ \E name \in TableNames : Open(name)
    \/ \E name \in TableNames : \E key \in KeysOf(name), data \in ValuesOf(name) :
          Put(name, key, data)
    \/ \E name \in TableNames : \E key \in KeysOf(name) : Get(name, key)
    \/ \E name \in TableNames : \E key \in KeysOf(name) : Delete(name, key)
    \/ \E name \in TableNames : Iter(name)
    \/ \E name \in TableNames : Advance(name)
    \/ \E name \in TableNames : Count(name)
    \/ \E name \in TableNames : TableOf(name, "", "")
    \/ \E name \in IndexedTables, k \in SelNames, v \in SelValues : TableOf(name, k, v)
    \/ \E name \in IndexedTables, idx \in IndexNames : AddIndex(name, idx)
    \/ \E exc \in {"", "raised"}, commit \in CommitResults : Exit(exc, commit)

Spec == Init /\ [][Next]_vars

\* an Index as Data.table hands it out (cursor_value set), over any secondary
\* database of the records PKeys
InitIndex ==
    /\ backend = "Berkeley"
    /\ phase = "open"
    /\ handleOpen = TRUE
    /\ tables = [t \in TableNames |-> NoTable]
    /\ files = {}
    /\ rows = [t \in TableNames |-> <<>>]
    /\ sqlcur = <<>>
    /\ dirty = FALSE
    /\ facadeIdx = {}
    /\ idxHandles = 0
    /\ classAttr = ""
    /\ \E v \in Selectors : index = [NoIndex EXCEPT !.open = TRUE, !.cursor_value = v]
    /\ \E S \in SUBSET PKeys : \E derive \in [S -> SecKeys] : idxdb = SecondaryDB(derive)
    /\ scanlog = NoScan
    /\ twin = NoTwin
    /\ prev = NoCall
    /\ last = NoLast

NextIndex ==
    \/ \E v \in Selectors : Seed(v)
    \/ IndexNext
    \/ IndexLen

SpecIndex == InitIndex /\ [][NextIndex]_vars

\* --------------------------------------------------------------- two facades
\* one sequence of put / get / delete calls given to a Berkeley facade (the
\* variables of Spec) and to a SQLite facade (twin)
PairStep(op, name, key, data, r1, r2) ==
    /\ phase = "open"
    /\ TotalRows(r1.st) <= MaxRows
    /\ TotalRows(r2.st) <= MaxRows
    /\ Finish(op, name, key, data, r1)
    /\ twin' = [on |-> TRUE, st |-> [r2.st EXCEPT !.made = 0], ret |-> r2.ret,
                rval |-> r2.rval, err |-> r2.err]
    /\ scanlog' = NoScan
    /\ UNCHANGED <<backend, phase, handleOpen, facadeIdx, idxHandles, classAttr,
                   index, idxdb>>

PairPut(name, key, data) ==
    PairStep("put", name, key, data, DataPutOn("Berkeley", Cur, name, key, data),
             DataPutOn("SQLite", twin.st, name, key, data))

PairGet(name, key) ==
    PairStep("get", name, key, "", DataGetOn("Berkeley", Cur, name, key),
             DataGetOn("SQLite", twin.st, name, key))

PairDelete(name, key) ==
    PairStep("delete", name, key, "", DataDeleteOn("Berkeley", Cur, name, key),
             DataDeleteOn("SQLite", twin.st, name, key))

InitPair ==
    /\ backend = "Berkeley"
    /\ phase = "open"
    /\ handleOpen = TRUE
    /\ tables = Fresh.tables
    /\ files = Fresh.files
    /\ rows = Fresh.rows
    /\ sqlcur = Fresh.sqlcur
    /\ dirty = Fresh.dirty
    /\ facadeIdx = {}
    /\ idxHandles = 0
    /\ classAttr = ""
    /\ index = NoIndex
    /\ idxdb = <<>>
    /\ scanlog = NoScan
    /\ twin = [NoTwin EXCEPT !.on = TRUE]
    /\ prev = NoCall
    /\ last = NoLast

NextPair ==
    \/ \E name \in TableNames : \E key \in KeysOf(name), data \in ValuesOf(name) :
          PairPut(name, key, data)
    \/ \E name \in TableNames : \E key \in KeysOf(name) : PairGet(name, key)
    \/ \E name \in TableNames : \E key \in KeysOf(name) : PairDelete(name, key)

SpecPair == InitPair /\ [][NextPair]_vars

\* -------------------------------------------------------------- properties
IsPrefix(p, q) == Len(p) <= Len(q) /\ \A i \in 1..Len(p) : p[i] = q[i]

EntriesFor(name, k) == {i \in 1..Len(rows[name]) : rows[name][i][1] = StoredKey(k)}

\* C1: a get that directly follows put(T, k, v) returns v
C1_PutThenGet ==
    (last.op = "get" /\ prev.op = "put")
        => (last.err = "" /\ last.ret = "str" /\ last.rval = prev.val)

\* C2: a get of a key that is not stored returns None and raises nothing
C2_GetAbsent ==
    (last.op = "get" /\ ~last.had) => (last.err = "" /\ last.ret = "None")

\* C3: a get that directly follows the delete of a stored key returns None; a
\* delete of a key that is not stored raises nothing and leaves the entries alone
C3_Delete ==
    /\ (last.op = "get" /\ prev.op = "delete" /\ prev.had)
          => (last.err = "" /\ last.ret = "None")
    /\ (last.op = "delete" /\ ~last.had) => (last.err = "" /\ last.same)

\* C4: after a put of a key that was already stored, the table holds exactly one
\* entry for the key, and a get that follows returns the value of that put
C4_Upsert ==
    /\ (last.op = "put" /\ last.had)
          => Cardinality(EntriesFor(last.table, last.key)) = 1
    /\ (last.op = "get" /\ prev.op = "put" /\ prev.had)
          => (last.ret = "str" /\ last.rval = prev.val)

\* C5: a run of advances of a Table that begins with no cursor (a first
\* iteration, or one begun after the previous one ended with StopIteration)
\* returns the stored entries in order from the first one, each once, and ends
\* with StopIteration exactly after the last of them
C5_FullScan ==
    /\ (scanlog.table \in TableNames /\ scanlog.fresh)
          => /\ IsPrefix(scanlog.out, scanlog.snap)
             /\ scanlog.done => scanlog.out = scanlog.snap
    /\ (scanlog.table \in TableNames /\ scanlog.afterStop) => scanlog.fresh

C5_Witness ==
    /\ scanlog.table = "games"
    /\ scanlog.afterStop
    /\ scanlog.done
    /\ Len(scanlog.out) = 2
    /\ scanlog.out[1] # scanlog.out[2]

\* C6: once the with-scope is left (the commit, where there is one, having
\* succeeded), the environment / connection is closed, nothing is left
\* uncommitted and no Table holds an open cursor
C6_ExitFinalizes ==
    (phase = "exited" /\ last.key = "")
        => /\ ~handleOpen
           /\ ~dirty
           /\ idxHandles = 0
           /\ \A t \in TableNames : ~(backend = "Berkeley" /\ tables[t].cursor)

\* C7: a call creates a Table object (and backend handle) for a name only when
\* none is registered under it; entries never leave Data.tables, so no name gets
\* a second Table and no entry is replaced
C7_OpenedOnce == last.made > 0 => ~last.reg

\* C8: table(name) returns the Table; table(name, idx=v), for an index name that
\* add_index was called with, returns the Index with cursor_value = v
C8_TableSelector ==
    /\ (last.op = "table" /\ last.key = "") => last.ret = "Table"
    /\ (last.op = "table" /\ last.key \in facadeIdx)
          => (last.ret = "Index" /\ last.rval = last.val)

\* C9: table(name, idx=v), for a name add_index was never called with, raises,
\* and no cursor_value is ever set on anything but an Index
C9_UnknownIndex ==
    /\ (last.op = "table" /\ last.key # "" /\ last.key \notin facadeIdx)
          => (last.err # "" /\ last.ret = "")
    /\ classAttr = ""

C11_DuplicateIndex ==
    (last.op = "add_index" /\ last.had) => (last.err = "TypeError" /\ last.att = 0)

\* C12: the advances that follow an __iter__ on a Table return the table's
\* first entry first (and end at once only when the table is empty), whether or
\* not an earlier iteration of the Table was left before its end
C12_FreshIteration ==
    (scanlog.table \in TableNames /\ scanlog.iter)
        => /\ Len(scanlog.out) >= 1
                => (Len(scanlog.snap) >= 1 /\ scanlog.out[1] = scanlog.snap[1])
           /\ (scanlog.done /\ scanlog.out = <<>>) => scanlog.snap = <<>>

\* the keys that have an entry in the table
DistinctKeys(name) == {rows[name][i][1] : i \in 1..Len(rows[name])}

\* C13: len of a Table returns the number of entries stored in it, one for
\* each key present
C13_Count ==
    last.op = "len"
        => (last.err = "" /\ last.ret = "int"
            /\ last.n = Cardinality(DistinctKeys(last.table)))

\* C14: every put, get or delete given to a Berkeley facade and to a SQLite
\* facade that were given the same calls before ends the same way on both:
\* both raise or neither does, and both return the same value (a str or None)
C14_Equivalent ==
    (twin.on /\ last.op \in {"put", "get", "delete"})
        => /\ (last.err = "") = (twin.err = "")
           /\ last.ret = twin.ret
           /\ last.rval = twin.rval

\* C15: a Table never holds more than one open cursor, and holds one exactly
\* when its cursor attribute is set; the first advance of an iteration begun
\* without cursor leaves one open when it returns an entry; an advance that
\* ends with StopIteration leaves the Table without cursor; and the advances
\* that follow a StopIteration begin without cursor and return the first entry
C15_CursorMachine ==
    /\ \A t \in TableNames :
          /\ tables[t].ncur <= 1
          /\ tables[t].cursor <=> tables[t].ncur = 1
    /\ (last.op = "next" /\ last.ret = "tuple")
          => (tables[last.table].cursor /\ tables[last.table].ncur = 1)
    /\ (last.op = "next" /\ last.err = "StopIteration")
          => /\ ~tables[last.table].cursor
             /\ tables[last.table].ncur = 0
             /\ tables[last.table].pos = ""
    /\ (scanlog.table \in TableNames /\ scanlog.afterStop)
          => /\ scanlog.fresh
             /\ Len(scanlog.out) >= 1
                  => (Len(scanlog.snap) >= 1 /\ scanlog.out[1] = scanlog.snap[1])
             /\ (scanlog.done /\ scanlog.out = <<>>) => scanlog.snap = <<>>

C15_Witness ==
    /\ scanlog.table = "games"
    /\ scanlog.afterStop
    /\ ~scanlog.iter
    /\ Len(scanlog.snap) = 2
    /\ Len(scanlog.out) = 1
    /\ ~scanlog.done
    /\ last.op = "next"
    /\ tables["games"].ncur = 1

\* C16: a get, put, delete or len, or an advance of another Table, leaves the
\* iteration of every Table that holds a cursor where it was: the same cursor,
\* on the same entry, with the same rows still to return
C16_CursorOwned ==
    last.op \in {"get", "put", "delete", "len", "next"} => last.kept

C19_FailingExit ==
    /\ (phase = "exited" /\ last.key = "commit fails") => last.err # ""
    /\ (phase = "exited" /\ last.err # "") => ~handleOpen

\* C20: an add_index that raises has attached no Index object, has opened no
\* index database and has left the stored entries as they were
C20_AllOrNothing ==
    (last.op = "add_index" /\ last.err # "") => (last.att = 0 /\ last.same)

=============================================================================
